---- MODULE Spec2Model ----
(***************************************************************************)
(* flask_jwt_extended/view_decorators.py: the four view decorators         *)
(* (jwt_required, jwt_optional, fresh_jwt_required,                        *)
(* jwt_refresh_token_required) and the helpers they share, as a state      *)
(* machine with one program counter per request being handled.             *)
(*                                                                         *)
(* A Python string is a sequence of characters.  The characters here are   *)
(* " " (whitespace) and a few opaque non-whitespace symbols: "Bearer",     *)
(* the symbols of TokenStore (an encoded JWT each) and the CSRF values.    *)
(***************************************************************************)
EXTENDS Integers, Sequences, FiniteSets, TLC

\* Longest Authorization header value, in characters, that Init draws.
MaxHeaderLen == 3

Threads == {"t1", "t2"}

Policies == {"jwt_required", "jwt_optional", "fresh_jwt_required",
             "jwt_refresh_token_required"}

\* ---------------------------------------------------------------- values

\* No exception raised.
NoExc == [type |-> "", msg |-> ""]

\* The value a call returns: an exception raised, or the value in val.
Raise(type, msg) == [exc |-> [type |-> type, msg |-> msg], val |-> <<>>]
Return(v) == [exc |-> NoExc, val |-> <<v>>]
Raised(r) == r.exc # NoExc

\* except NoAuthorizationError: the exception classes of exceptions.py are
\* siblings (each derives from JWTExtendedException), so only the class
\* itself is caught.
IsNoAuthorizationError(e) == e.type = "NoAuthorizationError"

\* dict.get(key, None) followed by "if not value": absent or empty.
Has(map, key) == key \in DOMAIN map
Falsy(map, key) == ~Has(map, key) \/ map[key] = <<>>

RECURSIVE SplitFrom(_, _, _)
SplitFrom(s, cur, acc) ==
    IF s = <<>>
    THEN IF cur = <<>> THEN acc ELSE Append(acc, cur)
    ELSE IF Head(s) = " "
         THEN SplitFrom(Tail(s), <<>>, IF cur = <<>> THEN acc ELSE Append(acc, cur))
         ELSE SplitFrom(Tail(s), Append(cur, Head(s)), acc)

\* str.split(): the maximal runs of non-whitespace characters.
Split(s) == SplitFrom(s, <<>>, <<>>)

\* ---------------------------------------------------------------- tokens

\* The encoded tokens in circulation: what each string is the signed form of.
TokenStore ==
    [tA |-> [sig |-> "K", expired |-> FALSE,
             payload |-> [type |-> "access", identity |-> "alice", fresh |-> TRUE,
                          csrf |-> <<"c1">>, user_claims |-> "claimsA"]],
     tN |-> [sig |-> "K", expired |-> FALSE,
             payload |-> [type |-> "access", identity |-> "bob", fresh |-> FALSE,
                          csrf |-> <<"c1">>, user_claims |-> "claimsN"]],
     tR |-> [sig |-> "K", expired |-> FALSE,
             payload |-> [type |-> "refresh", identity |-> "carol",
                          csrf |-> <<"c1">>, user_claims |-> "claimsR"]],
     tH |-> [sig |-> "K", expired |-> FALSE,
             payload |-> [type |-> "access", identity |-> "dave", fresh |-> TRUE]],
     tX |-> [sig |-> "K2", expired |-> FALSE,
             payload |-> [type |-> "access", identity |-> "alice", fresh |-> TRUE,
                          csrf |-> <<"c1">>, user_claims |-> "claimsA"]],
     tE |-> [sig |-> "K", expired |-> TRUE,
             payload |-> [type |-> "access", identity |-> "alice", fresh |-> TRUE,
                          csrf |-> <<"c1">>, user_claims |-> "claimsA"]]]

EmptyClaims == "{}"

\* tokens.decode_jwt
decode_jwt(encoded_token, secret, csrf, identity_claim) ==
    IF Len(encoded_token) # 1 \/ encoded_token[1] \notin DOMAIN TokenStore
    THEN Raise("MalformedToken", "Not enough segments")
    ELSE LET t == TokenStore[encoded_token[1]]
             p == t.payload
         IN IF t.sig # secret THEN Raise("InvalidSignature", "Signature verification failed")
            ELSE IF t.expired THEN Raise("ExpiredToken", "Signature has expired")
            ELSE IF "type" \notin DOMAIN p \/ identity_claim \notin DOMAIN p
                 THEN Raise("MalformedToken", "Missing claim")
            ELSE IF csrf /\ "csrf" \notin DOMAIN p
                 THEN Raise("MalformedToken", "Missing claim: csrf")
            ELSE IF "user_claims" \in DOMAIN p THEN Return(p)
            ELSE Return([k \in DOMAIN p \cup {"user_claims"} |->
                            IF k = "user_claims" THEN EmptyClaims ELSE p[k]])

\* ---------------------------------------------------------------- config

\* flask_jwt_extended.config: the names, the key and the CSRF-protected
\* methods are the same in every deployment modelled.
header_name == "Authorization"
access_cookie_name == "access_token_cookie"
refresh_cookie_name == "refresh_token_cookie"
access_csrf_header_name == "X-CSRF-ACCESS"
refresh_csrf_header_name == "X-CSRF-REFRESH"
csrf_request_methods == {"POST", "PUT", "PATCH", "DELETE"}
identity_claim == "identity"
decode_key == "K"

\* ------------------------------------------------------------ extraction

\* parts[0] != header_type or len(parts) != 2
BadPrefixedHeader(parts, header_type) ==
    parts[1] # header_type \/ Len(parts) # 2

_decode_jwt_from_headers(cfg, req) ==
    IF Falsy(req.headers, header_name)
    THEN Raise("NoAuthorizationError", "Missing Authorization Header")
    ELSE LET parts == Split(req.headers[header_name])
         IN IF cfg.header_type = <<>>
            THEN IF Len(parts) # 1
                 THEN Raise("InvalidHeaderError", "Bad header. Expected <JWT>")
                 ELSE decode_jwt(parts[1], decode_key, FALSE, identity_claim)
            ELSE IF parts = <<>>
                 THEN Raise("IndexError", "list index out of range")
                 ELSE IF BadPrefixedHeader(parts, cfg.header_type)
                      THEN Raise("InvalidHeaderError", "Bad header. Expected <type> <JWT>")
                      ELSE decode_jwt(parts[2], decode_key, FALSE, identity_claim)

\* Mutation: the double-submit check made for every method.
CsrfApplies_AnyMethod(cfg, req) == cfg.csrf_protect

\* config.csrf_protect and request.method in config.csrf_request_methods
CsrfApplies(cfg, req) == cfg.csrf_protect /\ req.method \in csrf_request_methods

\* The double-submit comparison; safe_str_cmp is string equality.
CsrfCheck(req, csrf_header_key, decoded_token) ==
    IF Falsy(req.headers, csrf_header_key)
    THEN Raise("CSRFError", "Missing CSRF token in headers")
    ELSE IF req.headers[csrf_header_key] # decoded_token.csrf
         THEN Raise("CSRFError", "CSRF double submit tokens do not match")
         ELSE Return(decoded_token)

\* Lines 158-175: the cookie of the request type, decoded.
CookieToken(cfg, req, request_type) ==
    LET cookie_key == IF request_type = "access" THEN access_cookie_name
                      ELSE refresh_cookie_name
    IN IF Falsy(req.cookies, cookie_key)
       THEN Raise("NoAuthorizationError", "Missing cookie")
       ELSE decode_jwt(req.cookies[cookie_key], decode_key, cfg.csrf_protect,
                       identity_claim)

_decode_jwt_from_cookies(cfg, req, request_type) ==
    LET csrf_header_key == IF request_type = "access" THEN access_csrf_header_name
                           ELSE refresh_csrf_header_name
        d == CookieToken(cfg, req, request_type)
    IN IF Raised(d) THEN d
       ELSE IF CsrfApplies(cfg, req)
            THEN CsrfCheck(req, csrf_header_key, d.val[1])
            ELSE d

\* Mutation: the fallback's own NoAuthorizationError is let through.
BothLocations_NoCollapse(cfg, req, request_type) ==
    LET c == _decode_jwt_from_cookies(cfg, req, request_type)
    IN IF Raised(c) /\ IsNoAuthorizationError(c.exc)
       THEN _decode_jwt_from_headers(cfg, req)
       ELSE c

\* Mutation: the headers are tried after every failure of the cookie path.
BothLocations_FallbackOnAnyError(cfg, req, request_type) ==
    LET c == _decode_jwt_from_cookies(cfg, req, request_type)
        h == _decode_jwt_from_headers(cfg, req)
    IN IF ~Raised(c) THEN c
       ELSE IF Raised(h) /\ IsNoAuthorizationError(h.exc)
            THEN IF IsNoAuthorizationError(c.exc)
                 THEN Raise("NoAuthorizationError", "Missing JWT in headers and cookies")
                 ELSE c
            ELSE h

\* Lines 195-201: cookies first, headers when the cookie path raises
\* NoAuthorizationError, one NoAuthorizationError when both do.
BothLocations(cfg, req, request_type) ==
    LET c == _decode_jwt_from_cookies(cfg, req, request_type)
    IN IF Raised(c) /\ IsNoAuthorizationError(c.exc)
       THEN LET h == _decode_jwt_from_headers(cfg, req)
            IN IF Raised(h) /\ IsNoAuthorizationError(h.exc)
               THEN Raise("NoAuthorizationError", "Missing JWT in headers and cookies")
               ELSE h
       ELSE c

\* Mutation: the double-submit check made on a token read from the headers.
TokenFromRequest_CsrfOnHeaders(cfg, req, request_type) ==
    IF cfg.jwt_in_cookies /\ cfg.jwt_in_headers
    THEN BothLocations(cfg, req, request_type)
    ELSE IF cfg.jwt_in_headers
         THEN LET h == _decode_jwt_from_headers(cfg, req)
                  key == IF request_type = "access" THEN access_csrf_header_name
                         ELSE refresh_csrf_header_name
              IN IF Raised(h) \/ ~CsrfApplies(cfg, req) THEN h
                 ELSE IF "csrf" \notin DOMAIN h.val[1]
                      THEN Raise("CSRFError", "Missing CSRF token in headers")
                      ELSE CsrfCheck(req, key, h.val[1])
         ELSE _decode_jwt_from_cookies(cfg, req, request_type)

\* The first statement of _decode_jwt_from_request: where the token is read.
TokenFromRequest(cfg, req, request_type) ==
    IF cfg.jwt_in_cookies /\ cfg.jwt_in_headers
    THEN BothLocations(cfg, req, request_type)
    ELSE IF cfg.jwt_in_headers
         THEN _decode_jwt_from_headers(cfg, req)
         ELSE _decode_jwt_from_cookies(cfg, req, request_type)


\* ----------------------------------------------------------------- state

VARIABLES
    config,     \* flask_jwt_extended.config, read-only while requests run
    callbacks,  \* the loaders the application registered, and what they answer
    request,    \* per thread: flask.request (method, headers, cookies)
    policy,     \* per thread: the decorator on the view the request goes to
    pc,         \* per thread: where the wrapper is
    jwt_data,   \* per thread: decoded_token / jwt_data, <<>> before it is bound
    raised,     \* per thread: the exception raised inside the wrapper
    exc,        \* per thread: the exception the wrapper let out to its caller
    ctx,        \* per thread: ctx_stack.top, the slots jwt and jwt_user
    calls,      \* per thread: the application callbacks invoked, in order
    fn_runs,    \* per thread: how many times the view fn was called
    seen,       \* per thread: ctx_stack.top as fn found it
    steps       \* per thread: the statements executed so far, in order

vars == <<config, callbacks, request, policy, pc, jwt_data, raised, exc, ctx,
          calls, fn_runs, seen, steps>>

EmptyCtx == [jwt |-> <<>>, jwt_user |-> <<>>]

\* request_type= of each decorator's call of _decode_jwt_from_request
RequestType(p) == IF p = "jwt_refresh_token_required" THEN "refresh" ELSE "access"

\* Mutation: except Exception.
Swallows_Everything(p, e) == p = "jwt_optional"

\* jwt_optional's "except NoAuthorizationError: pass"; no other wrapper
\* has a handler.
Swallows(p, e) == p = "jwt_optional" /\ IsNoAuthorizationError(e)

\* An exception raised in the wrapper's body on thread t: it reaches the
\* caller, or jwt_optional's handler, after which fn is called.
Throw(t, e) ==
    /\ raised' = [raised EXCEPT ![t] = e]
    /\ IF Swallows(policy[t], e)
       THEN pc' = [pc EXCEPT ![t] = "call_fn"] /\ UNCHANGED exc
       ELSE pc' = [pc EXCEPT ![t] = "failed"] /\ exc' = [exc EXCEPT ![t] = e]

\* ------------------------------------------------- _decode_jwt_from_request

\* Lines 194-205: the token is read from the request and decoded.
ReadToken(t) ==
    /\ pc[t] = "start"
    /\ steps' = [steps EXCEPT ![t] = Append(@, "read_token")]
    /\ LET r == TokenFromRequest(config, request[t], RequestType(policy[t]))
       IN IF Raised(r)
          THEN Throw(t, r.exc) /\ UNCHANGED jwt_data
          ELSE /\ jwt_data' = [jwt_data EXCEPT ![t] = r.val]
               /\ pc' = [pc EXCEPT ![t] = "check_type"]
               /\ UNCHANGED <<raised, exc>>
    /\ UNCHANGED <<config, callbacks, request, policy, ctx, calls, fn_runs, seen>>

\* Mutation: the type of the token is not looked at.
WrongType_Never(decoded_token, request_type) == FALSE

\* decoded_token['type'] != request_type
WrongType(decoded_token, request_type) == decoded_token.type # request_type

\* Mutation: the claims are verified for no token.
ClaimsStep_Never(request_type) == "check_blacklist"

\* Mutation: the claims are verified for tokens of both types.
ClaimsStep_Always(request_type) == "verify_claims"

\* if request_type == 'access': the claims are verified, else not.
ClaimsStep(request_type) ==
    IF request_type = "access" THEN "verify_claims" ELSE "check_blacklist"

\* Lines 207-209.
CheckType(t) ==
    /\ pc[t] = "check_type"
    /\ steps' = [steps EXCEPT ![t] = Append(@, "check_type")]
    /\ IF WrongType(jwt_data[t][1], RequestType(policy[t]))
       THEN Throw(t, [type |-> "WrongTokenError",
                      msg |-> "Only tokens of the request type can access this endpoint"])
       ELSE /\ pc' = [pc EXCEPT ![t] = ClaimsStep(RequestType(policy[t]))]
            /\ UNCHANGED <<raised, exc>>
    /\ UNCHANGED <<config, callbacks, request, policy, jwt_data, ctx, calls,
                   fn_runs, seen>>

\* utils.verify_token_claims: the registered verifier's answer.
verify_token_claims(cb, user_claims) == cb.claims_valid

\* Lines 211-214.
VerifyClaims(t) ==
    /\ pc[t] = "verify_claims"
    /\ steps' = [steps EXCEPT ![t] = Append(@, "verify_claims")]
    /\ calls' = [calls EXCEPT ![t] = Append(@, "verify_token_claims")]
    /\ IF ~verify_token_claims(callbacks, jwt_data[t][1].user_claims)
       THEN Throw(t, [type |-> "UserClaimsVerificationError",
                      msg |-> "user_claims verification failed"])
       ELSE /\ pc' = [pc EXCEPT ![t] = "check_blacklist"]
            /\ UNCHANGED <<raised, exc>>
    /\ UNCHANGED <<config, callbacks, request, policy, jwt_data, ctx, fn_runs, seen>>

\* Mutation: the per-type flags are not looked at.
AsksBlacklist_AnyType(cfg, cb, request_type) ==
    cfg.blacklist_enabled /\ cb.has_token_in_blacklist_callback

\* Whether _token_blacklisted reaches a call of token_in_blacklist.
AsksBlacklist(cfg, cb, request_type) ==
    /\ cfg.blacklist_enabled
    /\ cb.has_token_in_blacklist_callback
    /\ \/ cfg.blacklist_access_tokens /\ request_type = "access"
       \/ cfg.blacklist_refresh_tokens /\ request_type = "refresh"

\* Mutation: the callback is called once for each token type blacklisted.
BlacklistCalls_PerFlag(cfg, cb, request_type) ==
    IF cfg.blacklist_enabled /\ cb.has_token_in_blacklist_callback
    THEN (IF cfg.blacklist_access_tokens THEN <<"token_in_blacklist">> ELSE <<>>)
         \o (IF cfg.blacklist_refresh_tokens THEN <<"token_in_blacklist">> ELSE <<>>)
    ELSE <<>>

\* The calls of token_in_blacklist that _token_blacklisted makes: one on
\* line 119 or one on line 121, or none.
BlacklistCalls(cfg, cb, request_type) ==
    IF AsksBlacklist(cfg, cb, request_type) THEN <<"token_in_blacklist">> ELSE <<>>

\* Mutation: a missing callback is taken as "not revoked".
token_blacklisted_NoConfigError(cfg, cb, decoded_token, request_type) ==
    IF AsksBlacklist(cfg, cb, request_type) THEN Return(cb.in_blacklist)
    ELSE Return(FALSE)

\* Mutation: the callback's answer is dropped.
token_blacklisted_AnswerDropped(cfg, cb, decoded_token, request_type) ==
    IF cfg.blacklist_enabled /\ ~cb.has_token_in_blacklist_callback
    THEN Raise("RuntimeError", "A token_in_blacklist_callback must be provided")
    ELSE Return(FALSE)

_token_blacklisted(cfg, cb, decoded_token, request_type) ==
    IF ~cfg.blacklist_enabled THEN Return(FALSE)
    ELSE IF ~cb.has_token_in_blacklist_callback
         THEN Raise("RuntimeError", "A token_in_blacklist_callback must be provided")
         ELSE IF AsksBlacklist(cfg, cb, request_type)
              THEN Return(cb.in_blacklist)
              ELSE Return(FALSE)

\* Mutation: freshness is not asked of any token.
AfterDecode_NoFreshCheck(p) == "set_jwt"

\* What each wrapper does once _decode_jwt_from_request has returned.
AfterDecode(p) == IF p = "fresh_jwt_required" THEN "check_fresh" ELSE "set_jwt"

\* Lines 216-220.
CheckBlacklist(t) ==
    /\ pc[t] = "check_blacklist"
    /\ steps' = [steps EXCEPT ![t] = Append(@, "check_blacklist")]
    /\ LET rt == RequestType(policy[t])
           b == _token_blacklisted(config, callbacks, jwt_data[t][1], rt)
       IN /\ calls' = [calls EXCEPT ![t] = @ \o BlacklistCalls(config, callbacks, rt)]
          /\ IF Raised(b) THEN Throw(t, b.exc)
             ELSE IF b.val[1]
                  THEN Throw(t, [type |-> "RevokedTokenError",
                                 msg |-> "Token has been revoked"])
                  ELSE /\ pc' = [pc EXCEPT ![t] = AfterDecode(policy[t])]
                       /\ UNCHANGED <<raised, exc>>
    /\ UNCHANGED <<config, callbacks, request, policy, jwt_data, ctx, fn_runs, seen>>

\* ------------------------------------------------------------- the wrappers

\* Mutation: the test without its "not".
IsStale_Inverted(decoded_token) == decoded_token.fresh

\* not jwt_data['fresh']
IsStale(decoded_token) == ~decoded_token.fresh

\* Mutation: the slot is written before the freshness test, as the other
\* wrappers write it right after the decode.
CheckFresh_WritesFirst(t) ==
    /\ pc[t] = "check_fresh"
    /\ steps' = [steps EXCEPT ![t] = Append(@, "check_fresh")]
    /\ ctx' = [ctx EXCEPT ![t].jwt = jwt_data[t]]
    /\ IF IsStale(jwt_data[t][1])
       THEN Throw(t, [type |-> "FreshTokenRequired", msg |-> "Fresh token required"])
       ELSE /\ pc' = [pc EXCEPT ![t] = "set_jwt"]
            /\ UNCHANGED <<raised, exc>>
    /\ UNCHANGED <<config, callbacks, request, policy, jwt_data, calls, fn_runs, seen>>

\* fresh_jwt_required, lines 77-78.
CheckFresh(t) ==
    /\ pc[t] = "check_fresh"
    /\ steps' = [steps EXCEPT ![t] = Append(@, "check_fresh")]
    /\ IF IsStale(jwt_data[t][1])
       THEN Throw(t, [type |-> "FreshTokenRequired", msg |-> "Fresh token required"])
       ELSE /\ pc' = [pc EXCEPT ![t] = "set_jwt"]
            /\ UNCHANGED <<raised, exc>>
    /\ UNCHANGED <<config, callbacks, request, policy, jwt_data, ctx, calls,
                   fn_runs, seen>>

\* Mutation: the token is kept in one slot of the module, not in the
\* context of the request.
SetJwt_ModuleGlobal(t) ==
    /\ pc[t] = "set_jwt"
    /\ steps' = [steps EXCEPT ![t] = Append(@, "set_jwt")]
    /\ ctx' = [u \in Threads |-> [ctx[u] EXCEPT !.jwt = jwt_data[t]]]
    /\ pc' = [pc EXCEPT ![t] = "load_user"]
    /\ UNCHANGED <<config, callbacks, request, policy, jwt_data, raised, exc,
                   calls, fn_runs, seen>>

\* ctx_stack.top.jwt = jwt_data
SetJwt(t) ==
    /\ pc[t] = "set_jwt"
    /\ steps' = [steps EXCEPT ![t] = Append(@, "set_jwt")]
    /\ ctx' = [ctx EXCEPT ![t].jwt = jwt_data[t]]
    /\ pc' = [pc EXCEPT ![t] = "load_user"]
    /\ UNCHANGED <<config, callbacks, request, policy, jwt_data, raised, exc,
                   calls, fn_runs, seen>>

\* utils.user_loader: the registered loader's answer, <<>> for None.
user_loader(cb, identity) == IF cb.user_found THEN <<[user |-> identity]>> ELSE <<>>

\* Mutation: a loader that finds no user is passed over.
UserMissing_Never(user) == FALSE

\* user is None
UserMissing(user) == user = <<>>

\* _load_user(jwt_data[config.identity_claim])
LoadUser(t) ==
    /\ pc[t] = "load_user"
    /\ steps' = [steps EXCEPT ![t] = Append(@, "load_user")]
    /\ IF callbacks.has_user_loader
       THEN LET user == user_loader(callbacks, jwt_data[t][1][identity_claim])
            IN /\ calls' = [calls EXCEPT ![t] = Append(@, "user_loader")]
               /\ IF UserMissing(user)
                  THEN Throw(t, [type |-> "UserLoadError",
                                 msg |-> "user_loader returned None"])
                       /\ UNCHANGED ctx
                  ELSE /\ ctx' = [ctx EXCEPT ![t].jwt_user = user]
                       /\ pc' = [pc EXCEPT ![t] = "call_fn"]
                       /\ UNCHANGED <<raised, exc>>
       ELSE /\ pc' = [pc EXCEPT ![t] = "call_fn"]
            /\ UNCHANGED <<raised, exc, ctx, calls>>
    /\ UNCHANGED <<config, callbacks, request, policy, jwt_data, fn_runs, seen>>

\* Mutation: fn is called a second time.
CallView_Twice(t) ==
    /\ pc[t] = "call_fn"
    /\ steps' = [steps EXCEPT ![t] = Append(@, "call_fn")]
    /\ fn_runs' = [fn_runs EXCEPT ![t] = @ + 1]
    /\ seen' = [seen EXCEPT ![t] = <<ctx[t]>>]
    /\ pc' = [pc EXCEPT ![t] = IF fn_runs[t] = 0 THEN "call_fn" ELSE "done"]
    /\ UNCHANGED <<config, callbacks, request, policy, jwt_data, raised, exc,
                   ctx, calls>>

\* return fn(*args, **kwargs): the view reads ctx_stack.top.
CallView(t) ==
    /\ pc[t] = "call_fn"
    /\ steps' = [steps EXCEPT ![t] = Append(@, "call_fn")]
    /\ fn_runs' = [fn_runs EXCEPT ![t] = @ + 1]
    /\ seen' = [seen EXCEPT ![t] = <<ctx[t]>>]
    /\ pc' = [pc EXCEPT ![t] = "done"]
    /\ UNCHANGED <<config, callbacks, request, policy, jwt_data, raised, exc,
                   ctx, calls>>

Next ==
    \E t \in Threads :
        \/ ReadToken(t)
        \/ CheckType(t)
        \/ VerifyClaims(t)
        \/ CheckBlacklist(t)
        \/ CheckFresh(t)
        \/ SetJwt(t)
        \/ LoadUser(t)
        \/ CallView(t)


\* ---------------------------------------------------------------- inputs

\* Every string of at most n characters of the alphabet.
Strings(alphabet, n) == UNION {[1..k -> alphabet] : k \in 0..n}

\* Every mapping of some of the names to values: a header or cookie dict.
Dicts(names, values) == UNION {[d -> values] : d \in SUBSET names}

\* The dict with the given value under each of the given names.
DictOf(names, value) == [n \in names |-> value]

Locations == {[jwt_in_cookies |-> TRUE, jwt_in_headers |-> TRUE],
              [jwt_in_cookies |-> TRUE, jwt_in_headers |-> FALSE],
              [jwt_in_cookies |-> FALSE, jwt_in_headers |-> TRUE]}

Config(loc, header_type, csrf_protect, bl, bl_access, bl_refresh) ==
    [jwt_in_cookies |-> loc.jwt_in_cookies, jwt_in_headers |-> loc.jwt_in_headers,
     header_type |-> header_type, csrf_protect |-> csrf_protect,
     blacklist_enabled |-> bl, blacklist_access_tokens |-> bl_access,
     blacklist_refresh_tokens |-> bl_refresh]

\* The registered callbacks: an answer is drawn only for a registered one.
Callbacks ==
    {[claims_valid |-> cv, has_token_in_blacklist_callback |-> hb, in_blacklist |-> ib,
      has_user_loader |-> hl, user_found |-> uf] :
        cv \in BOOLEAN, hb \in BOOLEAN, ib \in BOOLEAN, hl \in BOOLEAN, uf \in BOOLEAN}

RegisteredCallbacks ==
    {cb \in Callbacks : /\ cb.in_blacklist => cb.has_token_in_blacklist_callback
                        /\ cb.user_found => cb.has_user_loader}

NoCallbacks(claims_valid) ==
    [claims_valid |-> claims_valid, has_token_in_blacklist_callback |-> FALSE,
     in_blacklist |-> FALSE, has_user_loader |-> FALSE, user_found |-> FALSE]

CookieNames == {access_cookie_name, refresh_cookie_name}
CsrfHeaderNames == {access_csrf_header_name, refresh_csrf_header_name}

Request(method, headers, cookies) ==
    [method |-> method, headers |-> headers, cookies |-> cookies]

\* A mapping extended by one entry.
With(map, key, value) ==
    [k \in DOMAIN map \cup {key} |-> IF k = key THEN value ELSE map[k]]

\* The request of a client that holds the encoded token k: the token in
\* both cookies and in the Authorization header, its CSRF value in both
\* CSRF headers.
ClientRequest(method, k) ==
    Request(method,
            With(DictOf(CsrfHeaderNames, <<"c1">>), header_name, <<"Bearer", " ", k>>),
            DictOf(CookieNames, <<k>>))

\* The request of a client that holds no token.
AnonymousRequest(method) == Request(method, <<>>, <<>>)

\* A thread that handles no request.
IdleRequest == AnonymousRequest("GET")

\* One request is being handled, on thread t1, its wrapper about to run.
Start(cfg, cb, rq, p) ==
    /\ config = cfg
    /\ callbacks = cb
    /\ request = [t \in Threads |-> IF t = "t1" THEN rq ELSE IdleRequest]
    /\ policy = [t \in Threads |-> IF t = "t1" THEN p ELSE "jwt_required"]
    /\ pc = [t \in Threads |-> IF t = "t1" THEN "start" ELSE "idle"]
    /\ jwt_data = [t \in Threads |-> <<>>]
    /\ raised = [t \in Threads |-> NoExc]
    /\ exc = [t \in Threads |-> NoExc]
    /\ ctx = [t \in Threads |-> EmptyCtx]
    /\ calls = [t \in Threads |-> <<>>]
    /\ fn_runs = [t \in Threads |-> 0]
    /\ seen = [t \in Threads |-> <<>>]
    /\ steps = [t \in Threads |-> <<>>]

\* Inputs that vary what the deployment registered and configured, under
\* requests of clients that hold one token or none.
InitChecks ==
    \E loc \in Locations, cp \in BOOLEAN, bl \in BOOLEAN, ba \in BOOLEAN,
       br \in BOOLEAN, cb \in RegisteredCallbacks, p \in Policies,
       rq \in {ClientRequest("POST", k) : k \in {"tA", "tN", "tR", "tH", "tX"}}
              \cup {AnonymousRequest("POST")} :
        Start(Config(loc, <<"Bearer">>, cp, bl, ba, br), cb, rq, p)

CookieValues == {<<>>, <<"tA">>, <<"tR">>, <<"tH">>, <<"tX">>}
CsrfValues == {<<>>, <<"c1">>, <<"c2">>}

\* Inputs that vary the cookies and the CSRF headers of the request.
InitCookies ==
    \E loc \in Locations, cp \in BOOLEAN, p \in Policies, m \in {"GET", "POST"},
       ck \in Dicts(CookieNames, CookieValues),
       cs \in Dicts(CsrfHeaderNames, CsrfValues),
       au \in Dicts({header_name}, {<<"Bearer", " ", "tA">>, <<"Bearer", " ", "tR">>}) :
        /\ refresh_cookie_name \in DOMAIN ck
              => ck[refresh_cookie_name] \in {<<"tA">>, <<"tR">>}
        /\ Start(Config(loc, <<"Bearer">>, cp, FALSE, FALSE, FALSE), NoCallbacks(TRUE),
                 Request(m, [n \in DOMAIN cs \cup DOMAIN au |->
                                IF n \in DOMAIN au THEN au[n] ELSE cs[n]], ck), p)

HeaderAlphabet == {" ", "Bearer", "tA"}

\* Inputs that vary the Authorization header.
InitHeaders ==
    \E loc \in Locations, ht \in {<<>>, <<"Bearer">>}, cp \in BOOLEAN,
       cv \in BOOLEAN, p \in Policies,
       ck \in {<<>>, DictOf({access_cookie_name}, <<"tA">>),
               DictOf({refresh_cookie_name}, <<"tR">>)},
       hd \in Dicts({header_name},
                    Strings(HeaderAlphabet, MaxHeaderLen)
                    \cup {<<"tR">>, <<"tX">>, <<"tE">>}
                    \cup {<<"Bearer", " ", k>> : k \in DOMAIN TokenStore}) :
        Start(Config(loc, ht, cp, FALSE, FALSE, FALSE), NoCallbacks(cv),
              Request("POST", hd, ck), p)

Init == InitChecks \/ InitCookies \/ InitHeaders

Spec == Init /\ [][Next]_vars

\* Every thread handles a request, each wrapper about to run; rq and p give
\* the request and the policy of each thread.
StartAll(cfg, cb, rq, p) ==
    /\ config = cfg
    /\ callbacks = cb
    /\ request = rq
    /\ policy = p
    /\ pc = [t \in Threads |-> "start"]
    /\ jwt_data = [t \in Threads |-> <<>>]
    /\ raised = [t \in Threads |-> NoExc]
    /\ exc = [t \in Threads |-> NoExc]
    /\ ctx = [t \in Threads |-> EmptyCtx]
    /\ calls = [t \in Threads |-> <<>>]
    /\ fn_runs = [t \in Threads |-> 0]
    /\ seen = [t \in Threads |-> <<>>]
    /\ steps = [t \in Threads |-> <<>>]

\* Two requests handled at once in one deployment (blacklisting on for both
\* token types, callback and user loader registered), each of a client that
\* holds one token or none, each to a view of any policy.
InitConcurrent ==
    \E loc \in Locations, cv \in BOOLEAN, ib \in BOOLEAN, uf \in BOOLEAN,
       p \in [Threads -> Policies],
       rq \in [Threads -> {ClientRequest("POST", k) : k \in {"tA", "tN", "tR"}}
                          \cup {AnonymousRequest("POST")}] :
        StartAll(Config(loc, <<"Bearer">>, TRUE, TRUE, TRUE, TRUE),
                 [claims_valid |-> cv, has_token_in_blacklist_callback |-> TRUE,
                  in_blacklist |-> ib, has_user_loader |-> TRUE, user_found |-> uf],
                 rq, p)

\* The wrappers of the requests being handled run interleaved, statement by
\* statement, in any order.
SpecConcurrent == InitConcurrent /\ [][Next]_vars

\* The statements of the wrapper that handles the request of thread t.
Handle(t) ==
    \/ ReadToken(t)
    \/ CheckType(t)
    \/ VerifyClaims(t)
    \/ CheckBlacklist(t)
    \/ CheckFresh(t)
    \/ SetJwt(t)
    \/ LoadUser(t)
    \/ CallView(t)

\* A wrapper is straight-line code without loops, locks or waits: a request
\* being handled is not left standing between two statements for ever.
\* The requests are those of InitChecks: every policy, location and
\* registration, clients with one token or none.
FairSpec == InitChecks /\ [][Next]_vars /\ \A t \in Threads : WF_vars(Handle(t))


\* ------------------------------------------------------------ properties

Finished(t) == pc[t] \in {"done", "failed"}

\* What reading the token of thread t's request gives.
TokenRead(t) == TokenFromRequest(config, request[t], RequestType(policy[t]))

\* The statements a wrapper executes when nothing is raised.
FullRun(p) ==
    <<"read_token", "check_type">>
    \o (IF RequestType(p) = "access" THEN <<"verify_claims">> ELSE <<>>)
    \o <<"check_blacklist">>
    \o (IF p = "fresh_jwt_required" THEN <<"check_fresh">> ELSE <<>>)
    \o <<"set_jwt", "load_user", "call_fn">>

\* C1: when the view runs and finds a token in the jwt slot, that token is
\* the one read from this request and every check that applies to the
\* policy was executed on it and passed: its type is the expected one, it is
\* fresh under fresh_jwt_required, the claims verifier accepted it (access
\* tokens), the revocation check returned false, and a registered user
\* loader returned the user that is in the jwt_user slot.
C1_ExposedTokenPassedEveryCheck ==
    \A t \in Threads :
        (seen[t] # <<>> /\ seen[t][1].jwt # <<>>) =>
            LET tok == seen[t][1].jwt[1]
                rt == RequestType(policy[t])
            IN /\ TokenRead(t) = Return(tok)
               /\ steps[t] = FullRun(policy[t])
               /\ raised[t] = NoExc
               /\ tok.type = rt
               /\ policy[t] = "fresh_jwt_required" => tok.fresh
               /\ rt = "access" =>
                     /\ verify_token_claims(callbacks, tok.user_claims)
                     /\ "verify_token_claims" \in {calls[t][i] : i \in DOMAIN calls[t]}
               /\ _token_blacklisted(config, callbacks, tok, rt) = Return(FALSE)
               /\ callbacks.has_user_loader =>
                     /\ user_loader(callbacks, tok[identity_claim]) # <<>>
                     /\ seen[t][1].jwt_user = user_loader(callbacks, tok[identity_claim])

\* C1's case: a view under fresh_jwt_required ran with a token in the slot,
\* with a revocation callback consulted and a user loader registered.
C1_Witness ==
    \E t \in Threads :
        /\ pc[t] = "done"
        /\ policy[t] = "fresh_jwt_required"
        /\ seen[t] # <<>> /\ seen[t][1].jwt # <<>>
        /\ calls[t] = <<"verify_token_claims", "token_in_blacklist", "user_loader">>

\* What the request carries where the configuration reads it, decoded,
\* before the CSRF step: the cookie's token, or under both locations the
\* header's when the cookie is absent.
Extracted(cfg, req, request_type) ==
    LET c == CookieToken(cfg, req, request_type)
        h == _decode_jwt_from_headers(cfg, req)
    IN IF cfg.jwt_in_cookies /\ cfg.jwt_in_headers
       THEN IF Raised(c) /\ IsNoAuthorizationError(c.exc) THEN h ELSE c
       ELSE IF cfg.jwt_in_headers THEN h ELSE c

\* C2 as stated: a finished request whose extracted and decoded token has
\* another type than the policy expects failed with WrongTokenError,
\* whatever the CSRF step says.
C2_WrongTypeWhateverCsrf ==
    \A t \in Threads :
        LET e == Extracted(config, request[t], RequestType(policy[t]))
        IN (Finished(t) /\ ~Raised(e) /\ e.val[1].type # RequestType(policy[t]))
               => exc[t].type = "WrongTokenError"

\* C2, amended: a finished request whose token was extracted and decoded,
\* passed the CSRF step where it applies, and has another type than the
\* policy expects failed with WrongTokenError before any callback was
\* invoked, under every policy and location and whatever the claims
\* verifier, the revocation check and the user loader would answer.
C2_WrongTypeAfterCsrf ==
    \A t \in Threads :
        LET r == TokenRead(t)
        IN (Finished(t) /\ ~Raised(r) /\ r.val[1].type # RequestType(policy[t]))
               => /\ pc[t] = "failed"
                  /\ exc[t].type = "WrongTokenError"
                  /\ calls[t] = <<>>
                  /\ fn_runs[t] = 0

\* C2's case: a token of the wrong type was rejected although the claims
\* verifier would have rejected it too.
C2_Witness ==
    \E t \in Threads :
        /\ pc[t] = "failed"
        /\ exc[t].type = "WrongTokenError"
        /\ jwt_data[t] # <<>> /\ jwt_data[t][1].type = "refresh"
        /\ ~callbacks.claims_valid
        /\ callbacks.has_user_loader /\ ~callbacks.user_found

\* C3: under jwt_optional a raised NoAuthorizationError is swallowed: the
\* view runs once and finds both slots unwritten, and nothing reaches the
\* caller.  Every other exception, and every exception under the other
\* three policies, reaches the caller as raised and the view does not run.
C3_OnlyNoAuthorizationSwallowed ==
    \A t \in Threads :
        raised[t] # NoExc =>
            IF policy[t] = "jwt_optional" /\ raised[t].type = "NoAuthorizationError"
            THEN /\ pc[t] \in {"call_fn", "done"}
                 /\ exc[t] = NoExc
                 /\ ctx[t] = EmptyCtx
                 /\ pc[t] = "done" => fn_runs[t] = 1 /\ seen[t] = <<EmptyCtx>>
            ELSE /\ pc[t] = "failed"
                 /\ exc[t] = raised[t]
                 /\ fn_runs[t] = 0
                 /\ seen[t] = <<>>

\* C3's case: under jwt_optional with both locations the combined
\* NoAuthorizationError was swallowed and the view has run.
C3_Witness ==
    \E t \in Threads :
        /\ policy[t] = "jwt_optional"
        /\ config.jwt_in_cookies /\ config.jwt_in_headers
        /\ raised[t] = [type |-> "NoAuthorizationError",
                        msg |-> "Missing JWT in headers and cookies"]
        /\ pc[t] = "done"
        /\ fn_runs[t] = 1


CombinedError == [type |-> "NoAuthorizationError",
                  msg |-> "Missing JWT in headers and cookies"]

BothConfigured == config.jwt_in_cookies /\ config.jwt_in_headers

CookieKey(t) == IF RequestType(policy[t]) = "access" THEN access_cookie_name
                ELSE refresh_cookie_name

\* Whether the checks that follow the reading of the token accept tok.
LaterChecksPass(t, tok) ==
    /\ tok.type = RequestType(policy[t])
    /\ RequestType(policy[t]) = "access" => callbacks.claims_valid
    /\ _token_blacklisted(config, callbacks, tok, RequestType(policy[t])) = Return(FALSE)
    /\ policy[t] = "fresh_jwt_required" => tok.fresh
    /\ callbacks.has_user_loader => callbacks.user_found

\* The request of thread t got the token of result r through the reading
\* step, and through the whole wrapper when the later checks accept it.
SucceedsWith(t, r) ==
    /\ jwt_data[t] = r.val
    /\ LaterChecksPass(t, r.val[1]) =>
          /\ pc[t] = "done"
          /\ exc[t] = NoExc
          /\ seen[t] # <<>> /\ seen[t][1].jwt = r.val

AccessBlacklistUnserved ==
    /\ config.blacklist_enabled
    /\ config.blacklist_access_tokens
    /\ ~callbacks.has_token_in_blacklist_callback

\* C5 as stated: with blacklisting enabled for access tokens and no callback
\* registered, every finished request of an access-token policy ended in
\* RuntimeError, raised before the token was read.
C5_ConfigErrorBeforeProcessing ==
    \A t \in Threads :
        (AccessBlacklistUnserved /\ RequestType(policy[t]) = "access" /\ Finished(t))
            => /\ exc[t].type = "RuntimeError"
               /\ steps[t] = <<>>

\* C5, amended: with blacklisting enabled for access tokens and no callback
\* registered, a request of an access-token policy ends in RuntimeError
\* exactly when its token was read, decoded, passed the CSRF step and the
\* type check and was accepted by the claims verifier; the error is raised
\* by the revocation check, before the freshness test, the write of the
\* slots, the user loader and the view.  A request that fails an earlier
\* check ends in that check's error (swallowed by jwt_optional when it is
\* NoAuthorizationError).
C5_ConfigErrorAtRevocationCheck ==
    \A t \in Threads :
        LET r == TokenRead(t)
        IN (AccessBlacklistUnserved /\ RequestType(policy[t]) = "access" /\ Finished(t)) =>
            IF ~Raised(r) /\ r.val[1].type = "access" /\ callbacks.claims_valid
            THEN /\ pc[t] = "failed"
                 /\ exc[t].type = "RuntimeError"
                 /\ steps[t] = <<"read_token", "check_type", "verify_claims",
                                 "check_blacklist">>
                 /\ calls[t] = <<"verify_token_claims">>
                 /\ ctx[t] = EmptyCtx
                 /\ fn_runs[t] = 0
            ELSE /\ raised[t].type \notin {"", "RuntimeError"}
                 /\ steps[t][Len(steps[t])] \in {"read_token", "check_type",
                                                 "verify_claims", "call_fn"}

\* C5's case: a non-fresh token under fresh_jwt_required reached the
\* revocation check of a deployment without a callback.
C5_Witness ==
    \E t \in Threads :
        /\ AccessBlacklistUnserved
        /\ policy[t] = "fresh_jwt_required"
        /\ pc[t] = "failed"
        /\ exc[t].type = "RuntimeError"
        /\ ~jwt_data[t][1].fresh

\* The CSRF step applies to the request of thread t and rejects it.
CsrfRejects(t) ==
    LET rt == RequestType(policy[t])
        c == CookieToken(config, request[t], rt)
        key == IF rt = "access" THEN access_csrf_header_name
               ELSE refresh_csrf_header_name
    IN /\ config.jwt_in_cookies
       /\ ~Raised(c)
       /\ config.csrf_protect
       /\ request[t].method \in csrf_request_methods
       /\ \/ ~Has(request[t].headers, key)
          \/ request[t].headers[key] = <<>>
          \/ request[t].headers[key] # c.val[1].csrf

\* The error of the first check that rejects the request of thread t, the
\* checks taken in the order: extraction and decoding, CSRF, type, claims,
\* revocation, freshness, user loading; "" when none does.
FirstRejection(t) ==
    LET rt == RequestType(policy[t])
        e == Extracted(config, request[t], rt)
    IN IF Raised(e) THEN e.exc.type
       ELSE IF CsrfRejects(t) THEN "CSRFError"
       ELSE IF e.val[1].type # rt THEN "WrongTokenError"
       ELSE IF rt = "access" /\ ~callbacks.claims_valid THEN "UserClaimsVerificationError"
       ELSE IF config.blacklist_enabled /\ ~callbacks.has_token_in_blacklist_callback
            THEN "RuntimeError"
       ELSE IF AsksBlacklist(config, callbacks, rt) /\ callbacks.in_blacklist
            THEN "RevokedTokenError"
       ELSE IF policy[t] = "fresh_jwt_required" /\ ~e.val[1].fresh THEN "FreshTokenRequired"
       ELSE IF callbacks.has_user_loader /\ ~callbacks.user_found THEN "UserLoadError"
       ELSE ""

IsPrefix(a, b) == Len(a) <= Len(b) /\ a = SubSeq(b, 1, Len(a))

\* C6 as stated: under fresh_jwt_required a token that was read, is of type
\* access and is not fresh fails with FreshTokenRequired without the claims
\* verifier or the revocation callback having been called.
C6_FreshnessBeforeCallbacks ==
    \A t \in Threads :
        LET r == TokenRead(t)
        IN (/\ policy[t] = "fresh_jwt_required" /\ Finished(t)
            /\ ~Raised(r) /\ r.val[1].type = "access" /\ ~r.val[1].fresh)
               => /\ exc[t].type = "FreshTokenRequired"
                  /\ calls[t] = <<>>

\* C6, amended: the checks are applied in the order extraction, decoding,
\* CSRF (when applicable), type, claims verifier, revocation check,
\* freshness (fresh_jwt_required), user loading, and the first check that
\* fails in this order decides the error.  Under fresh_jwt_required the
\* freshness test comes after the claims verifier and the revocation check:
\* a token that fails with FreshTokenRequired has been accepted by the
\* claims verifier, which was called, and by the revocation check.
C6_CheckOrder ==
    \A t \in Threads :
        Finished(t) =>
            /\ raised[t].type = FirstRejection(t)
            /\ raised[t] = NoExc => steps[t] = FullRun(policy[t])
            /\ (raised[t] # NoExc /\ pc[t] = "failed") =>
                  /\ IsPrefix(steps[t], FullRun(policy[t]))
                  /\ Len(steps[t]) < Len(FullRun(policy[t]))
            /\ raised[t].type = "FreshTokenRequired" =>
                  /\ steps[t] = <<"read_token", "check_type", "verify_claims",
                                  "check_blacklist", "check_fresh">>
                  /\ calls[t] = <<"verify_token_claims">>
                                \o (IF AsksBlacklist(config, callbacks, "access")
                                    THEN <<"token_in_blacklist">> ELSE <<>>)
                  /\ callbacks.claims_valid

\* C6's case: a non-fresh token failed with FreshTokenRequired after the
\* claims verifier and the revocation callback were called.
C6_Witness ==
    \E t \in Threads :
        /\ pc[t] = "failed"
        /\ exc[t].type = "FreshTokenRequired"
        /\ calls[t] = <<"verify_token_claims", "token_in_blacklist">>


\* The place of each callback in the order claims verifier, revocation
\* callback, user loader.
CallRank(c) ==
    CASE c = "verify_token_claims" -> 1
      [] c = "token_in_blacklist" -> 2
      [] c = "user_loader" -> 3

\* C7: in every request the claims verifier, the revocation callback and
\* the user loader are each called at most once, and the calls made are in
\* the order claims verifier, revocation callback, user loader.
C7_CallbacksOnceInOrder ==
    \A t \in Threads :
        \A i, j \in DOMAIN calls[t] :
            i < j => CallRank(calls[t][i]) < CallRank(calls[t][j])

\* C7's case: a request in which all three callbacks were called.
C7_Witness ==
    \E t \in Threads :
        /\ pc[t] = "done"
        /\ calls[t] = <<"verify_token_claims", "token_in_blacklist", "user_loader">>

CsrfKey(t) == IF RequestType(policy[t]) = "access" THEN access_csrf_header_name
              ELSE refresh_csrf_header_name

\* The request with its CSRF headers replaced by those of the dict h.
WithCsrfHeaders(req, h) ==
    [req EXCEPT !.headers =
        [n \in (DOMAIN req.headers \ CsrfHeaderNames) \cup DOMAIN h |->
            IF n \in DOMAIN h THEN h[n] ELSE req.headers[n]]]

\* C8: for a token decoded from a cookie with CSRF protection enabled.
\* Under a protected method the request passes the CSRF step exactly when
\* the CSRF header of the token type is present and equal to the token's
\* csrf value, and fails with CSRFError otherwise.  Under another method no
\* CSRFError is raised and the token read is the same whatever CSRF headers
\* the request carries.
C8_CsrfDoubleSubmit ==
    \A t \in Threads :
        LET rt == RequestType(policy[t])
            c == CookieToken(config, request[t], rt)
            hs == request[t].headers
        IN (config.jwt_in_cookies /\ config.csrf_protect /\ ~Raised(c) /\ steps[t] # <<>>) =>
            IF request[t].method \in csrf_request_methods
            THEN IF Has(hs, CsrfKey(t)) /\ hs[CsrfKey(t)] = c.val[1].csrf
                 THEN raised[t].type # "CSRFError" /\ jwt_data[t] = c.val
                 ELSE /\ raised[t].type = "CSRFError"
                      /\ pc[t] = "failed" /\ exc[t].type = "CSRFError"
                      /\ jwt_data[t] = <<>>
                      /\ fn_runs[t] = 0
            ELSE /\ raised[t].type # "CSRFError"
                 /\ jwt_data[t] = c.val
                 /\ \A h \in Dicts(CsrfHeaderNames, CsrfValues) :
                        TokenFromRequest(config, WithCsrfHeaders(request[t], h), rt)
                            = Return(jwt_data[t][1])

\* C8's case: a GET request with a cookie token and a CSRF header that
\* differs from the token's csrf value ran the view, CSRF protection on.
C8_Witness ==
    \E t \in Threads :
        /\ config.csrf_protect /\ config.jwt_in_cookies /\ ~config.jwt_in_headers
        /\ request[t].method = "GET"
        /\ Has(request[t].headers, CsrfKey(t))
        /\ request[t].headers[CsrfKey(t)] = <<"c2">>
        /\ pc[t] = "done"
        /\ seen[t][1].jwt # <<>>

\* C9: under fresh_jwt_required, an access token that every other check
\* accepts fails with FreshTokenRequired when it is not fresh, and the view
\* does not run; when it is fresh the view runs, with the token in the slot.
C9_FreshRequired ==
    \A t \in Threads :
        LET r == TokenRead(t)
            tok == r.val[1]
        IN (/\ policy[t] = "fresh_jwt_required" /\ Finished(t)
            /\ ~Raised(r)
            /\ tok.type = "access"
            /\ callbacks.claims_valid
            /\ _token_blacklisted(config, callbacks, tok, "access") = Return(FALSE)
            /\ callbacks.has_user_loader => callbacks.user_found) =>
               IF tok.fresh
               THEN /\ pc[t] = "done" /\ exc[t] = NoExc
                    /\ fn_runs[t] = 1
                    /\ seen[t][1].jwt = <<tok>>
               ELSE /\ pc[t] = "failed"
                    /\ exc[t].type = "FreshTokenRequired"
                    /\ fn_runs[t] = 0
                    /\ ctx[t] = EmptyCtx

\* C9's case: a token that is not fresh, accepted by the claims verifier and
\* not revoked, was refused under fresh_jwt_required.
C9_Witness ==
    \E t \in Threads :
        /\ policy[t] = "fresh_jwt_required"
        /\ pc[t] = "failed"
        /\ exc[t].type = "FreshTokenRequired"
        /\ callbacks.has_user_loader /\ callbacks.user_found
        /\ fn_runs[t] = 0

\* C10: for a request whose token passed every check before identity
\* resolution, under every policy: with no user loader registered the
\* loader is not called, the jwt_user slot stays unwritten and the view
\* runs; with a loader that returns None the wrapper fails with
\* UserLoadError and the view does not run; with a loader that returns a
\* user, the view runs and finds that user in the jwt_user slot.
C10_IdentityResolution ==
    \A t \in Threads :
        LET r == TokenRead(t)
            tok == r.val[1]
            rt == RequestType(policy[t])
            called == {calls[t][i] : i \in DOMAIN calls[t]}
        IN (/\ Finished(t) /\ ~Raised(r)
            /\ tok.type = rt
            /\ rt = "access" => callbacks.claims_valid
            /\ _token_blacklisted(config, callbacks, tok, rt) = Return(FALSE)
            /\ policy[t] = "fresh_jwt_required" => tok.fresh) =>
               IF ~callbacks.has_user_loader
               THEN /\ pc[t] = "done" /\ fn_runs[t] = 1
                    /\ "user_loader" \notin called
                    /\ seen[t] = <<[jwt |-> <<tok>>, jwt_user |-> <<>>]>>
               ELSE IF user_loader(callbacks, tok[identity_claim]) = <<>>
               THEN /\ pc[t] = "failed"
                    /\ exc[t].type = "UserLoadError"
                    /\ fn_runs[t] = 0 /\ seen[t] = <<>>
                    /\ ctx[t].jwt_user = <<>>
               ELSE /\ pc[t] = "done" /\ fn_runs[t] = 1
                    /\ "user_loader" \in called
                    /\ seen[t] = <<[jwt |-> <<tok>>,
                                    jwt_user |-> <<[user |-> tok[identity_claim]]>>]>>

\* C10's case: under jwt_refresh_token_required the view found the user
\* that the loader returned for the token's identity.
C10_Witness ==
    \E t \in Threads :
        /\ policy[t] = "jwt_refresh_token_required"
        /\ pc[t] = "done"
        /\ seen[t][1].jwt_user = <<[user |-> "carol"]>>

\* The header path is the one that reads the token of thread t's request:
\* headers only, or both locations and no cookie of the request type.
HeaderPathTaken(t) ==
    /\ config.jwt_in_headers
    /\ config.jwt_in_cookies => Falsy(request[t].cookies, CookieKey(t))

\* The value is the configured prefix followed by one token, or one token
\* when no prefix is configured.
WellFormedHeader(value, header_type) ==
    LET parts == Split(value)
    IN IF header_type = <<>> THEN Len(parts) = 1
       ELSE Len(parts) = 2 /\ parts[1] = header_type

\* C11 as stated: when the token is read from the Authorization header, an
\* absent (or empty) header ends the reading in NoAuthorizationError, every
\* other value that is not the configured prefix followed by one token (one
\* token when no prefix is configured) ends it in InvalidHeaderError, a
\* value with no parts included, and a well-formed value gives what
\* decoding its token gives; the reading ends in no other kind of error.
C11_HeaderClassified ==
    \A t \in Threads :
        (HeaderPathTaken(t) /\ steps[t] # <<>>) =>
            LET hs == request[t].headers
            IN IF Falsy(hs, header_name)
               THEN raised[t].type = "NoAuthorizationError"
               ELSE IF ~WellFormedHeader(hs[header_name], config.header_type)
               THEN raised[t].type = "InvalidHeaderError"
               ELSE LET parts == Split(hs[header_name])
                    IN TokenRead(t) = decode_jwt(parts[Len(parts)], decode_key, FALSE,
                                                 identity_claim)

\* The callbacks invoked so far in the request of thread t.
Called(t) == {calls[t][i] : i \in DOMAIN calls[t]}

\* The token of thread t's request was read and accepted by the checks that
\* come before the revocation check: type and, for access, claims.
ReachesRevocationCheck(t) ==
    LET r == TokenRead(t)
    IN /\ ~Raised(r)
       /\ r.val[1].type = RequestType(policy[t])
       /\ RequestType(policy[t]) = "access" => callbacks.claims_valid

\* Blacklisting is enabled for the token type the policy of t expects.
BlacklistedType(t) ==
    \/ config.blacklist_access_tokens /\ RequestType(policy[t]) = "access"
    \/ config.blacklist_refresh_tokens /\ RequestType(policy[t]) = "refresh"

\* C12: with blacklisting globally disabled the revocation callback is never
\* called and no request is rejected as revoked.  With blacklisting on, a
\* callback registered, blacklisting enabled for the token type of the
\* request and a callback that answers true, a request whose token reaches
\* the revocation check fails there with RevokedTokenError: the callback was
\* called, nothing after the check was executed, the slots are unwritten and
\* the view did not run, under every policy.
C12_RevocationCheck ==
    \A t \in Threads :
        /\ ~config.blacklist_enabled =>
              /\ "token_in_blacklist" \notin Called(t)
              /\ raised[t].type # "RevokedTokenError"
        /\ (/\ config.blacklist_enabled
            /\ callbacks.has_token_in_blacklist_callback
            /\ BlacklistedType(t)
            /\ callbacks.in_blacklist
            /\ ReachesRevocationCheck(t)
            /\ Finished(t)) =>
               /\ pc[t] = "failed"
               /\ exc[t] = [type |-> "RevokedTokenError", msg |-> "Token has been revoked"]
               /\ steps[t][Len(steps[t])] = "check_blacklist"
               /\ calls[t][Len(calls[t])] = "token_in_blacklist"
               /\ ctx[t] = EmptyCtx
               /\ fn_runs[t] = 0
        /\ "token_in_blacklist" \in Called(t) /\ callbacks.in_blacklist =>
               raised[t].type = "RevokedTokenError" /\ fn_runs[t] = 0

\* C12's case: under jwt_optional a fresh access token that the callback
\* reports as revoked was rejected, the user loader waiting behind.
C12_Witness ==
    \E t \in Threads :
        /\ policy[t] = "jwt_optional"
        /\ pc[t] = "failed"
        /\ exc[t].type = "RevokedTokenError"
        /\ calls[t] = <<"verify_token_claims", "token_in_blacklist">>
        /\ callbacks.has_user_loader /\ callbacks.user_found
        /\ fn_runs[t] = 0

\* C13 as stated: the RuntimeError for a missing callback is raised only
\* when blacklisting is enabled for the token type of the request; with
\* blacklisting globally on but not for that type no RuntimeError is raised,
\* whether or not a callback is registered, and the callback is not called.
C13_ConfigErrorOnlyForEnabledType ==
    \A t \in Threads :
        /\ raised[t].type = "RuntimeError" => config.blacklist_enabled /\ BlacklistedType(t)
        /\ (config.blacklist_enabled /\ ~BlacklistedType(t)) =>
              /\ raised[t].type \notin {"RuntimeError", "RevokedTokenError"}
              /\ "token_in_blacklist" \notin Called(t)

\* C13, amended: the per-type flags decide only whether a registered
\* callback is asked.  A RuntimeError is raised exactly for the requests
\* that reach the revocation check while blacklisting is globally on and no
\* callback is registered, whatever the per-type flags.  With blacklisting
\* globally on, a callback registered and the token type of the request not
\* blacklisted, the check returns false, the callback is not called,
\* whatever it would answer, and the request is neither refused as revoked
\* nor with a RuntimeError; the other type's flag changes nothing.
C13_RevocationPerType ==
    \A t \in Threads :
        LET rt == RequestType(policy[t])
        IN /\ raised[t].type = "RuntimeError" =>
                 /\ config.blacklist_enabled
                 /\ ~callbacks.has_token_in_blacklist_callback
                 /\ ReachesRevocationCheck(t)
           /\ (/\ Finished(t) /\ ReachesRevocationCheck(t)
               /\ config.blacklist_enabled
               /\ ~callbacks.has_token_in_blacklist_callback) =>
                  /\ pc[t] = "failed"
                  /\ exc[t].type = "RuntimeError"
                  /\ fn_runs[t] = 0
           /\ (/\ config.blacklist_enabled
               /\ callbacks.has_token_in_blacklist_callback
               /\ ~BlacklistedType(t)) =>
                  /\ "token_in_blacklist" \notin Called(t)
                  /\ raised[t].type \notin {"RuntimeError", "RevokedTokenError"}
                  /\ jwt_data[t] # <<>> =>
                        _token_blacklisted(config, callbacks, jwt_data[t][1], rt)
                            = Return(FALSE)
                  /\ Finished(t) => raised[t].type = FirstRejection(t)

\* C13's case: blacklisting on for refresh tokens only and a callback that
\* reports every token revoked; a request with an access token ran its view.
C13_Witness ==
    \E t \in Threads :
        /\ config.blacklist_enabled
        /\ ~config.blacklist_access_tokens /\ config.blacklist_refresh_tokens
        /\ callbacks.has_token_in_blacklist_callback /\ callbacks.in_blacklist
        /\ RequestType(policy[t]) = "access"
        /\ pc[t] = "done"
        /\ seen[t][1].jwt # <<>>

\* What the reading step of thread t ended in: the token bound to jwt_data,
\* or the exception raised.
ReadOutcome(t) ==
    IF jwt_data[t] # <<>> THEN Return(jwt_data[t][1])
    ELSE [exc |-> raised[t], val |-> <<>>]

\* The request with its Authorization header replaced by that of the dict h.
WithAuthorization(req, h) ==
    [req EXCEPT !.headers =
        [n \in (DOMAIN req.headers \ {header_name}) \cup DOMAIN h |->
            IF n \in DOMAIN h THEN h[n] ELSE req.headers[n]]]

AuthorizationValues ==
    {<<>>, <<" ">>, <<"tA">>, <<"Bearer", " ", "tA">>, <<"Bearer", " ", "tR">>,
     <<"Bearer", " ", "tX">>}

\* C14: with both locations configured.  When the cookie of the request
\* type is present the reading ends as the cookie path ends, whatever the
\* Authorization header holds: a decode error or a CSRFError of the cookie
\* reaches the caller although the header may hold a valid token, and when
\* cookie and header both hold an accepted token the view finds the
\* cookie's.  When the cookie is absent the reading ends as the header path
\* ends, an InvalidHeaderError or a decode error unchanged; only the header
\* path's NoAuthorizationError becomes the combined one.
C14_CookieBeforeHeader ==
    \A t \in Threads :
        LET rt == RequestType(policy[t])
            c == _decode_jwt_from_cookies(config, request[t], rt)
            h == _decode_jwt_from_headers(config, request[t])
        IN (BothConfigured /\ steps[t] # <<>>) =>
            IF ~Falsy(request[t].cookies, CookieKey(t))
            THEN /\ ReadOutcome(t) = c
                 /\ \A a \in Dicts({header_name}, AuthorizationValues) :
                        TokenFromRequest(config, WithAuthorization(request[t], a), rt) = c
                 /\ Raised(c) => /\ pc[t] = "failed"
                                 /\ exc[t] = c.exc
                                 /\ exc[t].type \in {"MalformedToken", "InvalidSignature",
                                                     "ExpiredToken", "CSRFError"}
                 /\ (~Raised(c) /\ pc[t] = "done") => seen[t][1].jwt = c.val
            ELSE /\ Raised(c) /\ c.exc.type = "NoAuthorizationError"
                 /\ IF Raised(h) /\ h.exc.type = "NoAuthorizationError"
                    THEN ReadOutcome(t).exc = CombinedError
                    ELSE ReadOutcome(t) = h
                 /\ (Raised(h) /\ h.exc.type # "NoAuthorizationError") =>
                        pc[t] = "failed" /\ exc[t] = h.exc

\* C14's case: the cookie's token failed the CSRF comparison and the
\* request, which carries a valid token of the expected type in its
\* Authorization header, was refused with CSRFError.
C14_Witness ==
    \E t \in Threads :
        /\ BothConfigured
        /\ Has(request[t].cookies, CookieKey(t))
        /\ Has(request[t].headers, header_name)
        /\ ~Raised(_decode_jwt_from_headers(config, request[t]))
        /\ _decode_jwt_from_headers(config, request[t]).val[1].type
               = RequestType(policy[t])
        /\ pc[t] = "failed"
        /\ exc[t].type = "CSRFError"

\* C15: a token read from the Authorization header, with headers as the
\* only location or as the fallback for an absent cookie, is not put to the
\* CSRF comparison: the reading never ends in CSRFError, it ends as the
\* header path ends (a token without a csrf claim included), and it ends the
\* same whatever CSRF headers the request carries; also with CSRF
\* protection on and a protected method.
C15_NoCsrfOnHeaderToken ==
    \A t \in Threads :
        LET rt == RequestType(policy[t])
            h == _decode_jwt_from_headers(config, request[t])
        IN (HeaderPathTaken(t) /\ steps[t] # <<>>) =>
            /\ raised[t].type # "CSRFError"
            /\ ~Raised(h) => jwt_data[t] = h.val
            /\ Raised(h) => raised[t].type = h.exc.type
            /\ \A cs \in Dicts(CsrfHeaderNames, CsrfValues) :
                   TokenFromRequest(config, WithCsrfHeaders(request[t], cs), rt)
                       = ReadOutcome(t)

\* C15's case: both locations, CSRF protection on, a POST request without
\* the cookie and without the CSRF header of its token type, whose header
\* token was accepted: the view ran.
C15_Witness ==
    \E t \in Threads :
        /\ BothConfigured /\ config.csrf_protect
        /\ request[t].method = "POST"
        /\ ~Has(request[t].cookies, CookieKey(t))
        /\ ~Has(request[t].headers, CsrfKey(t))
        /\ pc[t] = "done"
        /\ seen[t][1].jwt # <<>>

\* C16: the claims verifier is called only in requests of a policy that
\* expects an access token, never under jwt_refresh_token_required, and only
\* after the type check was made and passed.  When it answers false the
\* request fails with UserClaimsVerificationError: no callback is called
\* after it, the slots stay unwritten and the view does not run.
C16_ClaimsVerifier ==
    \A t \in Threads :
        "verify_token_claims" \in Called(t) =>
            /\ RequestType(policy[t]) = "access"
            /\ policy[t] # "jwt_refresh_token_required"
            /\ IsPrefix(<<"read_token", "check_type", "verify_claims">>, steps[t])
            /\ jwt_data[t] # <<>> /\ jwt_data[t][1].type = "access"
            /\ calls[t][1] = "verify_token_claims"
            /\ ~verify_token_claims(callbacks, jwt_data[t][1].user_claims) =>
                  /\ pc[t] = "failed"
                  /\ exc[t] = [type |-> "UserClaimsVerificationError",
                               msg |-> "user_claims verification failed"]
                  /\ calls[t] = <<"verify_token_claims">>
                  /\ steps[t] = <<"read_token", "check_type", "verify_claims">>
                  /\ ctx[t] = EmptyCtx
                  /\ fn_runs[t] = 0

\* C16's case: the verifier refused the claims of a token that the
\* revocation callback and the user loader, both registered and blacklisting
\* on for access tokens, were still to see.
C16_Witness ==
    \E t \in Threads :
        /\ pc[t] = "failed"
        /\ exc[t].type = "UserClaimsVerificationError"
        /\ config.blacklist_enabled /\ config.blacklist_access_tokens
        /\ callbacks.has_token_in_blacklist_callback /\ callbacks.in_blacklist
        /\ callbacks.has_user_loader
        /\ calls[t] = <<"verify_token_claims">>

\* The place of each statement in a wrapper's text.
StepRank(s) ==
    CASE s = "read_token" -> 1
      [] s = "check_type" -> 2
      [] s = "verify_claims" -> 3
      [] s = "check_blacklist" -> 4
      [] s = "check_fresh" -> 5
      [] s = "set_jwt" -> 6
      [] s = "load_user" -> 7
      [] s = "call_fn" -> 8

\* The two outcomes exclude each other, no statement was executed twice,
\* and fn ran once at most, once exactly in a request that is done.
OneOutcome(t) ==
    /\ \A i, j \in DOMAIN steps[t] : i < j => StepRank(steps[t][i]) < StepRank(steps[t][j])
    /\ fn_runs[t] \in {0, 1}
    /\ fn_runs[t] = 1 <=> pc[t] = "done"
    /\ pc[t] = "done" => exc[t] = NoExc /\ seen[t] # <<>>
    /\ pc[t] = "failed" <=> exc[t] # NoExc
    /\ pc[t] = "failed" => raised[t] = exc[t] /\ seen[t] = <<>>

\* Once an exception was raised in the request of t nothing more of the
\* pipeline is executed: no check, no callback, no write of a slot.  The one
\* statement that may follow is the call of fn, under jwt_optional after a
\* NoAuthorizationError.  A request that is done or failed does not move.
StopsAtFailure(t) ==
    /\ raised[t] # NoExc =>
          /\ raised'[t] = raised[t] /\ exc'[t] = exc[t]
          /\ calls'[t] = calls[t] /\ ctx'[t] = ctx[t] /\ jwt_data'[t] = jwt_data[t]
          /\ steps'[t] # steps[t] =>
                /\ policy[t] = "jwt_optional"
                /\ raised[t].type = "NoAuthorizationError"
                /\ steps'[t] = Append(steps[t], "call_fn")
    /\ Finished(t) =>
          /\ pc'[t] = pc[t] /\ steps'[t] = steps[t] /\ fn_runs'[t] = fn_runs[t]
          /\ seen'[t] = seen[t] /\ exc'[t] = exc[t] /\ ctx'[t] = ctx[t]

\* C17: under every policy the request being handled ends, done or failed
\* and never both; no statement is executed twice; after the first raised
\* exception no later check is made and no callback is called; fn runs at
\* most once, and exactly once in a request that ends done.
C17_EndsInOneOutcome ==
    /\ [](\A t \in Threads : OneOutcome(t))
    /\ [][\A t \in Threads : StopsAtFailure(t)]_vars
    /\ \A t \in Threads : (pc[t] = "start") ~> Finished(t)

\* C17's case: under jwt_optional, headers only, the NoAuthorizationError
\* of the reading was swallowed and the request ended done, fn having run
\* once, after two statements.
C17_Witness ==
    \E t \in Threads :
        /\ policy[t] = "jwt_optional"
        /\ ~config.jwt_in_cookies
        /\ raised[t].type = "NoAuthorizationError"
        /\ pc[t] = "done"
        /\ fn_runs[t] = 1
        /\ steps[t] = <<"read_token", "call_fn">>

\* C18 as stated: a request that ended in a failure let out to the caller
\* has written neither the jwt slot nor the jwt_user slot, a request that
\* failed with UserLoadError included.
C18_FailureLeavesSlotsUnwritten ==
    \A t \in Threads :
        pc[t] = "failed" => ctx[t] = EmptyCtx

\* C18, amended: a request that ended in a failure let out to the caller
\* has not written the jwt_user slot, and has not written the jwt slot
\* unless the failure is the UserLoadError of identity resolution: that one
\* is raised after the jwt slot was written, and leaves in it the decoded
\* token, which passed every other check.  In neither case has fn run.
C18_SlotsAfterFailure ==
    \A t \in Threads :
        pc[t] = "failed" =>
            /\ ctx[t].jwt_user = <<>>
            /\ fn_runs[t] = 0
            /\ IF exc[t].type = "UserLoadError"
               THEN /\ jwt_data[t] # <<>>
                    /\ ctx[t].jwt = jwt_data[t]
                    /\ TokenRead(t) = Return(ctx[t].jwt[1])
                    /\ steps[t] = SubSeq(FullRun(policy[t]), 1,
                                         Len(FullRun(policy[t])) - 1)
               ELSE ctx[t].jwt = <<>>

\* C18's case: under fresh_jwt_required the user loader found no user for a
\* fresh token; the request failed with UserLoadError, the token in the slot.
C18_Witness ==
    \E t \in Threads :
        /\ policy[t] = "fresh_jwt_required"
        /\ pc[t] = "failed"
        /\ exc[t].type = "UserLoadError"
        /\ ctx[t].jwt # <<>>
        /\ ctx[t].jwt_user = <<>>

\* The request of thread t is where it would be, had it run alone: the
\* first check that rejects it, if any, decided its error; its slots hold
\* nothing but its own token and the user loaded for that token's identity;
\* and the view, when it has run, found exactly those.
OwnOutcome(t) ==
    LET r == TokenRead(t)
        own == [jwt |-> r.val,
                jwt_user |-> IF callbacks.has_user_loader /\ ~Raised(r)
                             THEN user_loader(callbacks, r.val[1][identity_claim])
                             ELSE <<>>]
        swallowed == policy[t] = "jwt_optional"
                     /\ FirstRejection(t) = "NoAuthorizationError"
    IN /\ ctx[t].jwt \in {<<>>, own.jwt}
       /\ ctx[t].jwt_user \in {<<>>, own.jwt_user}
       /\ jwt_data[t] \in {<<>>, own.jwt}
       /\ raised[t] # NoExc => raised[t].type = FirstRejection(t)
       /\ Finished(t) =>
             /\ raised[t].type = FirstRejection(t)
             /\ IF FirstRejection(t) = ""
                THEN pc[t] = "done" /\ seen[t] = <<own>> /\ steps[t] = FullRun(policy[t])
                ELSE IF swallowed
                THEN pc[t] = "done" /\ seen[t] = <<EmptyCtx>>
                ELSE pc[t] = "failed" /\ exc[t] = raised[t] /\ seen[t] = <<>>

\* A statement executed for the request of u changes nothing that belongs
\* to the request of another thread t, and nothing shared.
Confined(t, u) ==
    steps'[u] # steps[u] =>
        /\ ctx'[t] = ctx[t] /\ seen'[t] = seen[t] /\ jwt_data'[t] = jwt_data[t]
        /\ pc'[t] = pc[t] /\ raised'[t] = raised[t] /\ exc'[t] = exc[t]
        /\ calls'[t] = calls[t] /\ fn_runs'[t] = fn_runs[t] /\ steps'[t] = steps[t]
        /\ UNCHANGED <<config, callbacks, request, policy>>

\* C19: with several requests handled at once, their statements interleaved
\* in any order and each with its own ctx_stack.top, the token and the user
\* a view finds are the ones decoded and loaded from its own request, no
\* statement of one request changes the slots (or anything else) of
\* another, and each request ends as it would have ended alone.
C19_RequestsIsolated ==
    /\ [](\A t \in Threads : OwnOutcome(t))
    /\ [][\A t, u \in Threads : t # u => Confined(t, u)]_vars

\* C19's case: two requests were handled at once, both views ran, and
\* each found another identity's token and user.
C19_Witness ==
    \E t, u \in Threads :
        /\ t # u
        /\ pc[t] = "done" /\ pc[u] = "done"
        /\ seen[t][1].jwt # <<>> /\ seen[u][1].jwt # <<>>
        /\ seen[t][1].jwt[1].identity # seen[u][1].jwt[1].identity
        /\ seen[t][1].jwt_user # seen[u][1].jwt_user
        /\ seen[t][1].jwt_user # <<>> /\ seen[u][1].jwt_user # <<>>

====
